---- MODULE Spec2Model ----
(***************************************************************************)
(* A model of the Mahjong rules engine of src/src/App.tsx: the tile deck,  *)
(* the win detection canHu, and the turn / action-window state machine     *)
(* that React drives through the handlers handleDiscard, performAction,    *)
(* nextTurn, initGame, the AI effect and the 500 ms timers.                *)
(***************************************************************************)
EXTENDS Integers, Sequences, FiniteSets, TLC

VARIABLES
    game,            \* the GameState object (useState, line 376)
    pendingActions,  \* the claim set (useState, line 378)
    selectedTileId,  \* the tile the human has selected (useState, line 377)
    timers,          \* the pending 500 ms setTimeout callbacks, oldest first
    aiTimer,         \* the timer the AI effect has armed: "none", "turn" or "response"
    mounted,         \* FALSE once a render has thrown and React unmounted App
    op,              \* the handler that ran last, with its arguments
    freeMoves,       \* how many non-routine inputs the human has made
    lateClicks,      \* how many clicks the human has made while a claim bar was exiting
    bar,             \* the claim bar in its exit animation (AnimatePresence, line 801)
    huHand,          \* canHu's hand argument  (specification SpecHu)
    huMelds,         \* canHu's melds argument (specification SpecHu)
    huResult         \* canHu(huHand, huMelds) (specification SpecHu)

vars == <<game, pendingActions, selectedTileId, timers, aiTimer, mounted, op, freeMoves,
          lateClicks, bar, huHand, huMelds, huResult>>

gameVars == <<game, pendingActions, selectedTileId, timers, aiTimer, mounted, op, freeMoves,
              lateClicks, bar>>
huVars == <<huHand, huMelds, huResult>>

----------------------------------------------------------------------------
(* Values *)

\* null, for winner and selectedTileId
Null == -1

\* what Array.pop() gives on an empty array
Undefined == -2

Seats == 0 .. 3

SUITS == <<"Wan", "Tiao", "Tong">>

WINDS == <<"E", "S", "W", "N">>

DRAGONS == <<"Z", "F", "B">>

NumericSuits == {"Wan", "Tiao", "Tong"}

----------------------------------------------------------------------------
(* createDeck: ids count up from 0 in the order the loops push the tiles *)

\* SuitTiles with the copy loop running three times for a value
SuitTilesThreeCopies(s) ==
    [n \in 1 .. 36 |->
        [id |-> (s - 1) * 36 + (n - 1), suit |-> SUITS[s], value |-> ((n - 1) \div 3) + 1]]

SuitTiles(s) ==
    [n \in 1 .. 36 |->
        [id |-> (s - 1) * 36 + (n - 1), suit |-> SUITS[s], value |-> ((n - 1) \div 4) + 1]]

WindTiles ==
    [n \in 1 .. 4 * Len(WINDS) |->
        [id |-> 108 + (n - 1), suit |-> "Wind", value |-> ((n - 1) \div 4) + 1]]

DragonTiles ==
    [n \in 1 .. 4 * Len(DRAGONS) |->
        [id |-> 108 + 4 * Len(WINDS) + (n - 1), suit |-> "Dragon", value |-> ((n - 1) \div 4) + 1]]

createDeck ==
    SuitTiles(1) \o SuitTiles(2) \o SuitTiles(3) \o WindTiles \o DragonTiles

\* A tile is held by its id; suit and value are read off the deck's record.
TileIds == {createDeck[n].id : n \in 1 .. Len(createDeck)}

suitOf(t) == createDeck[t + 1].suit

valueOf(t) == createDeck[t + 1].value

----------------------------------------------------------------------------
(* shuffle: rnd[k] is Math.floor(Math.random() * (i + 1)) of the k-th pass, *)
(* i = n - k                                                                *)

swap(array, a, b) == [array EXCEPT ![a] = array[b], ![b] = array[a]]

\* one pass of the loop: [array[i], array[j]] = [array[j], array[i]], i 0-based
shufflePass(array, rnd, i) == swap(array, i + 1, rnd[Len(array) - i] + 1)

\* the passes i = hi, hi - 1, ..., lo of the loop, in that order
RECURSIVE shufflePasses(_, _, _, _)
shufflePasses(array, rnd, hi, lo) ==
    IF hi < lo THEN array
    ELSE IF hi = lo THEN shufflePass(array, rnd, hi)
    ELSE LET mid == (hi + lo) \div 2
             upper == shufflePasses(array, rnd, hi, mid + 1)
         IN  \* a swap keeps the length; the test has the upper passes evaluated first
             IF Len(upper) = Len(array) THEN shufflePasses(upper, rnd, mid, lo) ELSE upper

shuffle(array, rnd) == shufflePasses(array, rnd, Len(array) - 1, 1)

----------------------------------------------------------------------------
(* sortHand, isSameTile *)

suitOrder(s) ==
    CASE s = "Wan" -> 0
      [] s = "Tong" -> 1
      [] s = "Tiao" -> 2
      [] s = "Wind" -> 3
      [] s = "Dragon" -> 4

\* the comparator of sortHand: negative, zero or positive
compareTiles(a, b) ==
    IF suitOf(a) # suitOf(b) THEN suitOrder(suitOf(a)) - suitOrder(suitOf(b))
    ELSE valueOf(a) - valueOf(b)

\* Array.prototype.sort never hands undefined to the comparator: it goes last.
sortsAfter(a, b) ==
    IF a = Undefined THEN b # Undefined
    ELSE IF b = Undefined THEN FALSE
    ELSE compareTiles(a, b) > 0

\* stable insertion: t goes behind every element that does not sort after it
RECURSIVE insertSorted(_, _)
insertSorted(sorted, t) ==
    IF sorted = <<>> THEN <<t>>
    ELSE IF sortsAfter(sorted[Len(sorted)], t)
         THEN Append(insertSorted(SubSeq(sorted, 1, Len(sorted) - 1), t), sorted[Len(sorted)])
         ELSE Append(sorted, t)

RECURSIVE sortHand(_)
sortHand(hand) ==
    IF hand = <<>> THEN <<>>
    ELSE insertSorted(sortHand(SubSeq(hand, 1, Len(hand) - 1)), hand[Len(hand)])

isSameTile(a, b) == suitOf(a) = suitOf(b) /\ valueOf(a) = valueOf(b)

----------------------------------------------------------------------------
(* canHu *)

\* the key `${suit}-${value}` of a tile, as the pair it is built from
keyOf(t) == <<suitOf(t), valueOf(t)>>

\* the order of String.prototype.sort on the keys: by suit name, then the digit
suitNameOrder(s) ==
    CASE s = "Dragon" -> 0
      [] s = "Tiao" -> 1
      [] s = "Tong" -> 2
      [] s = "Wan" -> 3
      [] s = "Wind" -> 4

keyBefore(k1, k2) ==
    \/ suitNameOrder(k1[1]) < suitNameOrder(k2[1])
    \/ k1[1] = k2[1] /\ k1[2] < k2[2]

\* counts: the kinds of the hand, each with how many tiles of it the hand holds
countsOf(allTiles) ==
    [k \in {keyOf(allTiles[i]) : i \in 1 .. Len(allTiles)} |->
        Cardinality({i \in 1 .. Len(allTiles) : keyOf(allTiles[i]) = k})]

\* remainingCounts[key], 0 standing for a missing key (undefined > 0 is false)
countAt(remainingCounts, key) ==
    IF key \in DOMAIN remainingCounts THEN remainingCounts[key] ELSE 0

\* the spread { ...remainingCounts, [key]: remainingCounts[key] - n } for a present key
lessOf(remainingCounts, key, n) ==
    [remainingCounts EXCEPT ![key] = remainingCounts[key] - n]

RECURSIVE checkStandard(_, _)
checkStandard(remainingCounts, meldsNeeded) ==
    LET keys == {k \in DOMAIN remainingCounts : remainingCounts[k] > 0}
    IN  IF keys = {} THEN meldsNeeded = 0
        ELSE LET firstKey == CHOOSE k \in keys : \A k2 \in keys \ {k} : keyBefore(k, k2)
                 suit == firstKey[1]
                 val == firstKey[2]
                 key2 == <<suit, val + 1>>
                 key3 == <<suit, val + 2>>
             IN  \/ /\ remainingCounts[firstKey] >= 3
                    /\ checkStandard(lessOf(remainingCounts, firstKey, 3), meldsNeeded - 1)
                 \/ /\ suit \in {"Wan", "Tiao", "Tong"}
                    /\ val <= 7
                    /\ countAt(remainingCounts, key2) > 0
                    /\ countAt(remainingCounts, key3) > 0
                    /\ checkStandard(
                           lessOf(lessOf(lessOf(remainingCounts, firstKey, 1), key2, 1), key3, 1),
                           meldsNeeded - 1)

\* canHu returning the verdict of the first pair it tries (the kinds in the order
\* Object.keys lists them, that of their first tile in the hand)
canHuFirstPair(hand, melds) ==
    IF Len(hand) % 3 # 2 THEN FALSE
    ELSE LET counts == countsOf(hand)
             firstAt(k) == CHOOSE i \in 1 .. Len(hand) :
                               keyOf(hand[i]) = k /\ \A j \in 1 .. i - 1 : keyOf(hand[j]) # k
             pairs == {k \in DOMAIN counts : counts[k] >= 2}
         IN  /\ pairs # {}
             /\ LET key == CHOOSE k \in pairs : \A k2 \in pairs : firstAt(k) <= firstAt(k2)
                IN  checkStandard(lessOf(counts, key, 2), (Len(hand) - 2) \div 3)

canHu(hand, melds) ==
    LET allTiles == hand
    IN  IF Len(allTiles) % 3 # 2 THEN FALSE
        ELSE LET counts == countsOf(allTiles)
             IN  \E key \in DOMAIN counts :
                     /\ counts[key] >= 2
                     /\ checkStandard(lessOf(counts, key, 2), (Len(allTiles) - 2) \div 3)

----------------------------------------------------------------------------
(* Bounds of the model *)

\* the human clicks only the first MaxClickPos tiles of the hand
MaxClickPos == 2

\* the human makes at most MaxFreeMoves inputs other than the routine ones
\* (routine: clicking the first tile of the hand, declaring a win, and claiming or
\* passing on the claim bar of a current offer; not routine: a restart and a click
\* further up the hand)
MaxFreeMoves == 1

\* while a claim bar is in its exit animation the human clicks at most MaxLateClicks
\* times, on the bar or on the hand (the restart button counts as a free move)
MaxLateClicks == 1

----------------------------------------------------------------------------
(* initGame *)

isAI(p) == p # 0

\* createDeck(), each tile held by its id
deckIds == SubSeq([n \in 1 .. Len(createDeck) |-> createDeck[n].id], 1, Len(createDeck))

\* dealtTo with every seat popping the same tile of a round
dealtToSameTiles(deck, p) == [i \in 1 .. 13 |-> deck[Len(deck) - 4 * (i - 1)]]

\* the tiles seat p is dealt: thirteen rounds of players.forEach(p => deck.pop())
dealtTo(deck, p) == [i \in 1 .. 13 |-> deck[Len(deck) - (4 * (i - 1) + p)]]

initGame(rnd) ==
    LET shuffled == shuffle(deckIds, rnd)
        dealerTile == shuffled[Len(shuffled) - 52]
        deck == SubSeq(shuffled, 1, Len(shuffled) - 53)
        players == [p \in Seats |->
                       [hand |-> sortHand(IF p = 0 THEN Append(dealtTo(shuffled, p), dealerTile)
                                          ELSE dealtTo(shuffled, p)),
                        melds |-> <<>>,
                        discards |-> <<>>]]
    IN  [deck |-> deck,
         players |-> players,
         currentTurn |-> 0,
         lastDiscard |-> <<>>,
         phase |-> "Playing",
         winner |-> Null,
         winType |-> "null",
         logs |-> <<"start">>,
         wallCount |-> Len(deck)]

----------------------------------------------------------------------------
(* helpers of the handlers *)

\* hand.findIndex(t => t.id === tileId), 1-based; 0 stands for -1
RECURSIVE indexOfIdFrom(_, _, _)
indexOfIdFrom(hand, tileId, i) ==
    IF i > Len(hand) THEN 0
    ELSE IF hand[i] = tileId THEN i
    ELSE indexOfIdFrom(hand, tileId, i + 1)

indexOfId(hand, tileId) == indexOfIdFrom(hand, tileId, 1)

\* hand.findIndex(t => t.suit === s && t.value === val), 1-based; 0 stands for -1
RECURSIVE indexOfKindFrom(_, _, _, _)
indexOfKindFrom(hand, s, val, i) ==
    IF i > Len(hand) THEN 0
    ELSE IF suitOf(hand[i]) = s /\ valueOf(hand[i]) = val THEN i
    ELSE indexOfKindFrom(hand, s, val, i + 1)

indexOfKind(hand, s, val) == indexOfKindFrom(hand, s, val, 1)

\* removeAt splicing at index 0 whatever the index found
removeAtFront(seq, i) == Tail(seq)

\* Array.splice(i, 1): the array without its i-th element
removeAt(seq, i) == SubSeq(seq, 1, i - 1) \o SubSeq(seq, i + 1, Len(seq))

\* the indices of the tiles of hand that are the same kind as tile, ascending
RECURSIVE sameIndicesFrom(_, _, _)
sameIndicesFrom(hand, tile, i) ==
    IF i > Len(hand) THEN <<>>
    ELSE IF isSameTile(hand[i], tile) THEN <<i>> \o sameIndicesFrom(hand, tile, i + 1)
    ELSE sameIndicesFrom(hand, tile, i + 1)

sameIndices(hand, tile) == sameIndicesFrom(hand, tile, 1)

hasUndefined(hand) == \E i \in 1 .. Len(hand) : hand[i] = Undefined

\* [msg, ...prev.logs].slice(0, 50)
addLog(logs, msg) == SubSeq(<<msg>> \o logs, 1, IF Len(logs) + 1 < 50 THEN Len(logs) + 1 ELSE 50)

\* hand.some(t => t.suit === suit && t.value === v)
has(hand, suit, v) == \E i \in 1 .. Len(hand) : suitOf(hand[i]) = suit /\ valueOf(hand[i]) = v

----------------------------------------------------------------------------
(* checkResponseActions: the claim set for a discard *)

possibleOf(p, tile, fromPlayer) ==
    LET hand == game.players[p].hand
        sameCount == Len(sameIndices(hand, tile))
        v == valueOf(tile)
        s == suitOf(tile)
        chowFor == (fromPlayer + 1) % 4 = p /\ s \in {"Wan", "Tiao", "Tong"}
    IN  (IF canHu(Append(hand, tile), game.players[p].melds) THEN <<"Hu">> ELSE <<>>)
        \o (IF sameCount >= 2 THEN <<"Pung">> ELSE <<>>)
        \o (IF sameCount = 3 THEN <<"Kong">> ELSE <<>>)
        \o (IF chowFor /\ has(hand, s, v - 2) /\ has(hand, s, v - 1) THEN <<"Chow">> ELSE <<>>)
        \o (IF chowFor /\ has(hand, s, v - 1) /\ has(hand, s, v + 1) THEN <<"Chow">> ELSE <<>>)
        \o (IF chowFor /\ has(hand, s, v + 1) /\ has(hand, s, v + 2) THEN <<"Chow">> ELSE <<>>)

RECURSIVE responseActionsFrom(_, _, _)
responseActionsFrom(p, tile, fromPlayer) ==
    IF p > 3 THEN <<>>
    ELSE IF p = fromPlayer \/ possibleOf(p, tile, fromPlayer) = <<>>
         THEN responseActionsFrom(p + 1, tile, fromPlayer)
         ELSE <<[player |-> p, actions |-> possibleOf(p, tile, fromPlayer)]>>
              \o responseActionsFrom(p + 1, tile, fromPlayer)

responseActions(tile, fromPlayer) == responseActionsFrom(0, tile, fromPlayer)

----------------------------------------------------------------------------
(* the AI effect (line 613): which timer it arms for a state *)

RECURSIVE filterAI(_)
filterAI(pa) ==
    IF pa = <<>> THEN <<>>
    ELSE IF isAI(pa[1].player) THEN <<pa[1]>> \o filterAI(Tail(pa))
    ELSE filterAI(Tail(pa))

effect(g, pa) ==
    IF g.phase = "GameOver" THEN "none"
    ELSE IF g.phase = "Playing" /\ isAI(g.currentTurn) THEN "turn"
    ELSE IF g.phase = "ActionWindow" /\ filterAI(pa) # <<>> THEN "response"
    ELSE "none"

\* the last handler: kind, the seat it acted for, the tile and the claim kind
opOf(kind, seat, tile, action, ok) ==
    [kind |-> kind, seat |-> seat, tile |-> tile, action |-> action, ok |-> ok]


----------------------------------------------------------------------------
(* The handlers. Each gives the state its setGame / setPendingActions /     *)
(* setTimeout calls leave behind, as a record of game, pendingActions and   *)
(* timers; React applies the calls of one handler in one batch.             *)

world == [game |-> game, pendingActions |-> pendingActions, timers |-> timers]

timerOf(kind, playerId) == [kind |-> kind, playerId |-> playerId]

\* the forEach of checkResponseActions (line 460) throws: for a seat other than the
\* discarder that holds undefined, canHu (line 124) or at the latest the filter of
\* line 469 reads .suit of undefined
checkResponseActionsThrows(fromPlayer) ==
    \E p \in Seats \ {fromPlayer} : hasUndefined(game.players[p].hand)

\* checkResponseActions (line 457): the claim set is set or the nextTurn timer armed
\* (lines 486-491) only if the forEach has not thrown
checkResponseActions(w, tile, fromPlayer) ==
    IF checkResponseActionsThrows(fromPlayer) THEN w
    ELSE LET actions == responseActions(tile, fromPlayer)
         IN  IF actions = <<>>
             THEN [w EXCEPT !.timers = Append(w.timers, timerOf("nextTurn", (fromPlayer + 1) % 4))]
             ELSE [w EXCEPT !.pendingActions = actions]

\* handleDiscard (line 428); the setGame and addLog of lines 446-453 are applied
\* even if checkResponseActions (line 454) throws after them
handleDiscard(playerId, tileId) ==
    IF game.phase # "Playing" THEN world
    ELSE LET player == game.players[playerId]
             tileIndex == indexOfId(player.hand, tileId)
         IN  IF tileIndex = 0 THEN world
             ELSE LET tile == player.hand[tileIndex]
                      newHand == removeAt(player.hand, tileIndex)
                      newPlayers == [game.players EXCEPT ![playerId] =
                                        [player EXCEPT !.hand = sortHand(newHand),
                                                       !.discards = Append(player.discards, tile)]]
                      discarded == [game EXCEPT !.players = newPlayers,
                                                !.lastDiscard = <<[tile |-> tile, player |-> playerId]>>,
                                                !.phase = "ActionWindow",
                                                !.logs = addLog(game.logs, "discard")]
                  IN  checkResponseActions([world EXCEPT !.game = discarded], tile, playerId)

\* nextTurn (line 494)
nextTurn(playerId) ==
    LET drawn == game.deck[Len(game.deck)]
        newDeck == SubSeq(game.deck, 1, Len(game.deck) - 1)
        after == IF Len(game.deck) = 0
                 THEN [game EXCEPT !.phase = "GameOver",
                                   !.winner = Null,
                                   !.logs = <<"exhausted">> \o game.logs]
                 ELSE [game EXCEPT !.deck = newDeck,
                                   !.players[playerId].hand = sortHand(Append(game.players[playerId].hand, drawn)),
                                   !.currentTurn = playerId,
                                   !.phase = "Playing",
                                   !.lastDiscard = <<>>,
                                   !.wallCount = Len(newDeck)]
    IN  [world EXCEPT !.game = after, !.pendingActions = <<>>]

\* array.slice(0, end): the first end elements, or all of them if there are fewer
slice(array, end) == SubSeq(array, 1, IF Len(array) < end THEN Len(array) ELSE end)

\* the tiles a Pung takes from the hand: the first two of the kind, higher index first
pungTiles(hand, tile) ==
    LET indices == slice(sameIndices(hand, tile), 2)
    IN  [k \in 1 .. Len(indices) |-> hand[indices[Len(indices) + 1 - k]]]

\* the tiles a Kong takes from the hand: every tile of the kind, higher index first
kongTiles(hand, tile) ==
    LET indices == sameIndices(hand, tile)
    IN  [k \in 1 .. Len(indices) |-> hand[indices[Len(indices) + 1 - k]]]

\* findAndRemove(val) on the pair [newHand, tilesToMeld] (line 557)
findAndRemove(pair, s, val) ==
    LET idx == indexOfKind(pair[1], s, val)
    IN  IF idx # 0 THEN <<removeAt(pair[1], idx), Append(pair[2], pair[1][idx])>> ELSE pair

\* the Chow branch (line 553): [newHand, tilesToMeld] after the two removals
chowTake(hand, tile) ==
    LET v == valueOf(tile)
        s == suitOf(tile)
        start == <<hand, <<tile>>>>
    IN  IF has(hand, s, v - 2) /\ has(hand, s, v - 1)
        THEN findAndRemove(findAndRemove(start, s, v - 2), s, v - 1)
        ELSE IF has(hand, s, v - 1) /\ has(hand, s, v + 1)
        THEN findAndRemove(findAndRemove(start, s, v - 1), s, v + 1)
        ELSE findAndRemove(findAndRemove(start, s, v + 1), s, v + 2)

\* a hand without the tiles of taken (each is in the hand once)
RECURSIVE without(_, _)
without(hand, taken) ==
    IF taken = <<>> THEN hand
    ELSE without(removeAt(hand, indexOfId(hand, taken[1])), Tail(taken))

\* [newHand, tilesToMeld] of performAction for a Pung, Kong or Chow (lines 544-568)
meldTake(hand, tile, action) ==
    IF action = "Pung" THEN <<without(hand, pungTiles(hand, tile)), <<tile>> \o pungTiles(hand, tile)>>
    ELSE IF action = "Kong" THEN <<without(hand, kongTiles(hand, tile)), <<tile>> \o kongTiles(hand, tile)>>
    ELSE chowTake(hand, tile)

\* winByDiscard recording the win as a self-draw
winByDiscardAsSelfDraw(playerId) ==
    [game EXCEPT !.phase = "GameOver",
                 !.winner = playerId,
                 !.winType = "SelfDraw",
                 !.logs = <<"hu">> \o game.logs]

\* the Hu branch of performAction's updater (line 532)
winByDiscard(playerId) ==
    [game EXCEPT !.phase = "GameOver",
                 !.winner = playerId,
                 !.winType = "Discard",
                 !.logs = <<"hu">> \o game.logs]

\* the updater of performAction (line 526)
actionResult(playerId, action, tile, fromPlayer) ==
    LET actor == game.players[playerId]
        target == game.players[fromPlayer]
    IN  IF action = "Hu"
        THEN winByDiscard(playerId)
        ELSE IF action \in {"Pung", "Kong", "Chow"}
        THEN LET take == meldTake(actor.hand, tile, action)
                 melded == [game.players EXCEPT ![playerId] =
                               [actor EXCEPT !.hand = sortHand(take[1]),
                                             !.melds = Append(actor.melds,
                                                 [type |-> action, tiles |-> take[2], fromPlayer |-> fromPlayer])]]
                 \* newPlayers[fromPlayer] = { ...target, ... }: target was read before the
                 \* claimant was written, so a claim on one's own discard would undo the meld
                 newPlayers == [melded EXCEPT ![fromPlayer] =
                                   [(IF fromPlayer = playerId THEN target ELSE melded[fromPlayer])
                                       EXCEPT !.discards = SubSeq(target.discards, 1, Len(target.discards) - 1)]]
             IN  [game EXCEPT !.players = newPlayers,
                              !.currentTurn = playerId,
                              !.phase = "Playing",
                              !.lastDiscard = <<>>,
                              !.logs = <<"claim">> \o game.logs]
        ELSE game

\* performAction (line 522) as the handler of one render: line 523 tests, and line
\* 524 reads, the lastDiscard of the game that render closed over, while the
\* updater of line 526 works on the state of the moment
performActionOf(lastDiscard, playerId, action) ==
    IF lastDiscard = <<>> THEN world
    ELSE LET tile == lastDiscard[1].tile
             fromPlayer == lastDiscard[1].player
         IN  [game |-> actionResult(playerId, action, tile, fromPlayer),
              pendingActions |-> <<>>,
              timers |-> IF action = "Kong" THEN Append(timers, timerOf("kongDraw", playerId))
                         ELSE timers]

\* performAction (line 522) called from the latest render
performAction(playerId, action) == performActionOf(game.lastDiscard, playerId, action)

\* the tiles of a hand that are not undefined
definedOf(hand) == SelectSeq(hand, LAMBDA t : t # Undefined)

\* the updater of performAction (line 526) throws for a claimant that holds
\* undefined: the reduce of line 548 or 551 calls isSameTile on every tile of the
\* hand; the some of line 561 reads .suit of undefined, the last tile of the hand,
\* unless it finds v - 2 and v - 1 before it; the Hu branch reads no tile
updaterThrows(playerId, action, tile) ==
    LET hand == game.players[playerId].hand
        v == valueOf(tile)
        s == suitOf(tile)
    IN  /\ hasUndefined(hand)
        /\ \/ action \in {"Pung", "Kong"}
           \/ /\ action = "Chow"
              /\ ~ (has(definedOf(hand), s, v - 2) /\ has(definedOf(hand), s, v - 1))

\* performAction (line 522) when its updater throws: React runs the updater while
\* rendering, and with no error boundary the throw unmounts App; the setTimeout of
\* line 598 was armed by the handler before the render
performActionThrown(playerId, action) ==
    [world EXCEPT !.timers = IF action = "Kong" THEN Append(timers, timerOf("kongDraw", playerId))
                             ELSE timers]

\* the Kong replacement draw (line 598)
kongDraw(playerId) ==
    LET drawn == IF Len(game.deck) = 0 THEN Undefined ELSE game.deck[Len(game.deck)]
        newDeck == SubSeq(game.deck, 1, Len(game.deck) - 1)
    IN  [game EXCEPT !.deck = newDeck,
                     !.players[playerId].hand = sortHand(Append(game.players[playerId].hand, drawn)),
                     !.wallCount = Len(newDeck)]

\* the discard strategy of the AI turn (lines 628-644), 1-based
aiDiscardIndex(hand) ==
    LET honours == {i \in 1 .. Len(hand) :
                       /\ suitOf(hand[i]) \in {"Wind", "Dragon"}
                       /\ Len(sameIndices(hand, hand[i])) = 1}
        isolated == {i \in 1 .. Len(hand) :
                       /\ suitOf(hand[i]) \notin {"Wind", "Dragon"}
                       /\ ~ \E k \in 1 .. Len(hand) :
                              /\ suitOf(hand[k]) = suitOf(hand[i])
                              /\ valueOf(hand[k]) - valueOf(hand[i]) \in -1 .. 1}
        min(S) == CHOOSE i \in S : \A k \in S : i <= k
    IN  IF honours # {} THEN min(honours)
        ELSE IF isolated # {} THEN min(isolated)
        ELSE 1

\* the kind the AI takes from its entry of the claim set (lines 658-661); "Pass" otherwise
includes(actions, a) == \E i \in 1 .. Len(actions) : actions[i] = a

\* aiBestAction testing Pung ahead of Kong
aiPungBeforeKong(actions) ==
    IF includes(actions, "Hu") THEN "Hu"
    ELSE IF includes(actions, "Pung") THEN "Pung"
    ELSE IF includes(actions, "Kong") THEN "Kong"
    ELSE IF includes(actions, "Chow") THEN "Chow"
    ELSE "Pass"

aiBestAction(actions) ==
    IF includes(actions, "Hu") THEN "Hu"
    ELSE IF includes(actions, "Kong") THEN "Kong"
    ELSE IF includes(actions, "Pung") THEN "Pung"
    ELSE IF includes(actions, "Chow") THEN "Chow"
    ELSE "Pass"

\* prev.filter(p => p.player !== seat)
RECURSIVE withoutSeat(_, _)
withoutSeat(pa, seat) ==
    IF pa = <<>> THEN <<>>
    ELSE IF pa[1].player # seat THEN <<pa[1]>> \o withoutSeat(Tail(pa), seat)
    ELSE withoutSeat(Tail(pa), seat)

\* a pass (lines 664-667 and 819-823) as the handler of one render: the filter of
\* line 820 works on the claim set of the moment, the length test of line 821 and
\* the lastDiscard of line 822 are those the render closed over
passOf(lastDiscard, claims, seat) ==
    [world EXCEPT !.pendingActions = withoutSeat(pendingActions, seat),
                  !.timers = IF Len(claims) = 1
                             THEN Append(timers, timerOf("nextTurn", (lastDiscard[1].player + 1) % 4))
                             ELSE timers]

\* a pass (lines 664-667 and 819-823) made from the latest render
pass(seat) == passOf(game.lastDiscard, pendingActions, seat)

\* selfDraw recording the seat after the declaring one as the winner
selfDrawNextSeat(seat) ==
    [game EXCEPT !.phase = "GameOver",
                 !.winner = (seat + 1) % 4,
                 !.winType = "SelfDraw",
                 !.logs = <<"selfdraw">> \o game.logs]

\* the self-draw win (lines 623 and 865)
selfDraw(seat) ==
    [game EXCEPT !.phase = "GameOver",
                 !.winner = seat,
                 !.winType = "SelfDraw",
                 !.logs = <<"selfdraw">> \o game.logs]

\* the entry of the claim set for a seat, as a sequence of at most one entry
entryOf(pa, seat) == SelectSeq(pa, LAMBDA e : e.player = seat)


----------------------------------------------------------------------------
(* The shuffles of the model: each stream is the run of values              *)
(* Math.floor(Math.random() * (i + 1)) that one call of shuffle draws.      *)

\* BEGIN STREAMS
Stream1 ==
    <<
       132, 20, 2, 67, 2, 129, 115, 63, 20, 17, 15, 0, 83, 3, 17, 24, 14, 114, 23, 109,
       52, 36, 60, 83, 83, 97, 95, 15, 34, 42, 3, 100, 29, 7, 3, 51, 79, 33, 95, 95,
       64, 71, 72, 49, 54, 38, 76, 10, 31, 46, 28, 2, 44, 5, 54, 30, 21, 4, 29, 54,
       52, 50, 27, 48, 39, 50, 40, 43, 61, 31, 58, 37, 38, 17, 4, 6, 27, 30, 11, 45,
       17, 22, 52, 19, 46, 2, 12, 40, 36, 31, 28, 41, 23, 38, 40, 38, 19, 36, 26, 36,
       34, 32, 14, 21, 30, 9, 13, 20, 17, 13, 9, 6, 1, 8, 7, 16, 3, 12, 3, 10,
       0, 10, 3, 6, 9, 3, 5, 1, 0, 1, 5, 3, 0, 2, 1
    >>

Stream2 ==
    <<
       0, 1, 4, 17, 32, 2, 9, 20, 124, 124, 88, 104, 88, 8, 92, 105, 104, 12, 97, 37,
       36, 16, 64, 41, 48, 40, 65, 45, 60, 44, 66, 73, 72, 49, 17, 77, 84, 52, 4, 80,
       80, 56, 1, 20, 41, 61, 45, 9, 37, 76, 65, 2, 66, 13, 14, 15, 24, 25, 26, 64,
       35, 6, 50, 38, 38, 38, 27, 6, 32, 9, 19, 42, 55, 10, 45, 16, 33, 23, 46, 6,
       46, 11, 40, 17, 15, 13, 24, 22, 32, 25, 8, 12, 43, 1, 23, 17, 23, 10, 6, 22,
       29, 32, 26, 25, 29, 19, 4, 5, 23, 18, 23, 19, 8, 9, 0, 11, 14, 3, 13, 9,
       10, 13, 6, 7, 7, 5, 5, 1, 6, 2, 5, 4, 3, 0, 0
    >>

Stream3 ==
    <<
       72, 85, 86, 25, 76, 93, 87, 29, 80, 101, 0, 97, 84, 40, 4, 102, 88, 44, 8, 105,
       92, 48, 12, 73, 96, 52, 16, 77, 100, 56, 20, 81, 81, 60, 24, 29, 36, 64, 28, 87,
       37, 68, 77, 77, 38, 41, 16, 73, 28, 53, 52, 12, 0, 69, 32, 33, 34, 35, 60, 26,
       3, 45, 27, 65, 66, 15, 52, 26, 53, 10, 31, 50, 6, 37, 4, 22, 14, 42, 38, 51,
       7, 44, 16, 36, 15, 15, 13, 4, 10, 25, 3, 39, 27, 14, 39, 24, 26, 38, 34, 10,
       18, 27, 29, 14, 16, 4, 12, 2, 4, 9, 4, 19, 9, 18, 16, 13, 3, 1, 8, 3,
       6, 6, 0, 5, 1, 8, 4, 8, 2, 6, 0, 3, 2, 1, 0
    >>

\* a deal played to the empty wall without a claim when the human discards the
\* first tile of the hand each turn: seat 3 draws the last tile, Tiao-5 (tile 55),
\* and discards it; seat 0 is offered Chow, seat 1 Pung and Kong
Stream4 ==
    <<
       72, 73, 77, 66, 92, 74, 81, 68, 93, 75, 94, 60, 44, 76, 95, 67, 48, 80, 97, 57,
       64, 84, 98, 58, 104, 85, 99, 61, 100, 86, 40, 69, 101, 87, 41, 62, 65, 96, 42, 59,
       56, 52, 43, 70, 87, 53, 45, 71, 41, 54, 49, 63, 0, 66, 58, 46, 8, 12, 57, 12,
       20, 57, 32, 71, 21, 67, 4, 66, 33, 56, 60, 0, 1, 59, 56, 40, 2, 28, 52, 54,
       9, 54, 42, 8, 16, 46, 24, 46, 34, 28, 25, 36, 29, 8, 20, 2, 22, 12, 36, 16,
       35, 28, 5, 16, 23, 1, 13, 25, 6, 2, 24, 8, 17, 18, 4, 8, 14, 2, 16, 8,
       1, 8, 6, 12, 10, 0, 7, 6, 1, 6, 4, 2, 0, 0, 0
    >>

RandomStreams == <<Stream1, Stream2, Stream3, Stream4>>
\* END STREAMS

\* the sessions initGame starts, one for each stream
Sessions == [k \in 1 .. Len(RandomStreams) |-> initGame(RandomStreams[k])]

----------------------------------------------------------------------------
(* The state machine *)

Init ==
    /\ \E k \in 1 .. Len(RandomStreams) : game = Sessions[k]
    /\ pendingActions = <<>>
    /\ selectedTileId = Null
    /\ timers = <<>>
    /\ aiTimer = "none"
    /\ mounted = TRUE
    /\ op = opOf("initGame", Null, Null, "", TRUE)
    /\ freeMoves = 0
    /\ lateClicks = 0
    /\ bar = <<>>
    /\ huHand = <<>>
    /\ huMelds = <<>>
    /\ huResult = FALSE

\* what the handlers of a rendered claim bar closed over (lines 809 and 818)
closureOf(g, pa) == [lastDiscard |-> g.lastDiscard, pendingActions |-> pa]

\* the bar in its exit animation once the claim set becomes pa: AnimatePresence
\* (line 801) keeps the bar of the last render that had an entry for seat 0 on the
\* page, with the handlers of that render, until the exit animation is over
exitOf(pa) ==
    IF entryOf(pa, 0) # <<>> THEN <<>>
    ELSE IF entryOf(pendingActions, 0) # <<>> THEN <<closureOf(game, pendingActions)>>
    ELSE bar

\* the claim bar on the page: the bar of the latest render (line 802), or the one
\* in its exit animation
barShown ==
    IF entryOf(pendingActions, 0) # <<>> THEN <<closureOf(game, pendingActions)>>
    ELSE bar

\* a handler's batch of state updates, and the AI effect re-run after it
Settle(w) ==
    /\ game' = w.game
    /\ pendingActions' = w.pendingActions
    /\ timers' = w.timers
    /\ aiTimer' = effect(w.game, w.pendingActions)
    /\ bar' = exitOf(w.pendingActions)

\* the restart button (lines 724 and 904): initGame with a fresh shuffle
InitGame ==
    /\ mounted
    /\ freeMoves < MaxFreeMoves
    /\ \E k \in 1 .. Len(RandomStreams) : game' = Sessions[k]
    /\ selectedTileId' = Null
    /\ pendingActions' = <<>>
    /\ aiTimer' = "none"
    /\ freeMoves' = freeMoves + 1
    /\ bar' = exitOf(<<>>)
    /\ op' = opOf("initGame", Null, Null, "", TRUE)
    /\ UNCHANGED <<timers, mounted, lateClicks, huVars>>

\* the hand tile onClick with the phase test only
onClickIgnoredPhaseOnly == game.phase # "Playing"

\* the early return of the hand tile onClick (line 850)
onClickIgnored == game.phase # "Playing" \/ game.currentTurn # 0

\* the human clicks the i-th tile of the hand (line 849)
ClickTile(i) ==
    /\ mounted
    /\ i \in 1 .. Len(game.players[0].hand)
    /\ i <= MaxClickPos
    /\ LET t == game.players[0].hand[i]
           routine == i = 1 \/ t = selectedTileId
       IN  IF onClickIgnored
           THEN /\ op' = opOf("click", 0, Null, "", FALSE)
                /\ UNCHANGED <<game, pendingActions, selectedTileId, timers, aiTimer, freeMoves, bar>>
           ELSE /\ routine \/ freeMoves < MaxFreeMoves
                /\ freeMoves' = IF routine THEN freeMoves ELSE freeMoves + 1
                /\ IF selectedTileId = t
                   THEN \* handleDiscard(0, t.id); setSelectedTileId(null): a throw of
                        \* handleDiscard leaves the tile selected
                        /\ Settle(handleDiscard(0, t))
                        /\ selectedTileId' = IF checkResponseActionsThrows(0) THEN t ELSE Null
                        /\ op' = opOf("discard", 0, t, "", ~checkResponseActionsThrows(0))
                   ELSE /\ selectedTileId' = t
                        /\ op' = opOf("select", 0, t, "", TRUE)
                        /\ UNCHANGED <<game, pendingActions, timers, aiTimer, bar>>
    /\ bar # <<>> => lateClicks < MaxLateClicks
    /\ lateClicks' = IF bar # <<>> THEN lateClicks + 1 ELSE lateClicks
    /\ UNCHANGED <<mounted, huVars>>

\* the human's self-draw button (line 863)
SelfDrawButton ==
    /\ mounted
    /\ game.phase = "Playing"
    /\ game.currentTurn = 0
    /\ canHu(game.players[0].hand, game.players[0].melds)
    /\ game' = selfDraw(0)
    /\ aiTimer' = "none"
    /\ op' = opOf("selfDraw", 0, Null, "", TRUE)
    /\ bar # <<>> => lateClicks < MaxLateClicks
    /\ lateClicks' = IF bar # <<>> THEN lateClicks + 1 ELSE lateClicks
    /\ UNCHANGED <<pendingActions, selectedTileId, timers, mounted, freeMoves, bar, huVars>>

\* one of the human's claim buttons (line 809), on the bar of the latest render or,
\* as a late click, on the bar in its exit animation, whose buttons and handlers
\* are those of the last render that had an entry for seat 0
ClaimButton(act) ==
    /\ mounted
    /\ barShown # <<>>
    /\ includes(entryOf(barShown[1].pendingActions, 0)[1].actions, act)
    /\ bar # <<>> => lateClicks < MaxLateClicks
    /\ lateClicks' = IF bar # <<>> THEN lateClicks + 1 ELSE lateClicks
    /\ Settle(performActionOf(barShown[1].lastDiscard, 0, act))
    /\ op' = opOf("claim", 0, Null, act, barShown[1].lastDiscard # <<>>)
    /\ UNCHANGED <<selectedTileId, mounted, freeMoves, huVars>>

\* the human's pass button (line 818), on the bar of the latest render or, as a
\* late click, on the bar in its exit animation
PassButton ==
    /\ mounted
    /\ barShown # <<>>
    /\ bar # <<>> => lateClicks < MaxLateClicks
    /\ lateClicks' = IF bar # <<>> THEN lateClicks + 1 ELSE lateClicks
    /\ Settle(passOf(barShown[1].lastDiscard, barShown[1].pendingActions, 0))
    /\ op' = opOf("pass", 0, Null, "", TRUE)
    /\ UNCHANGED <<selectedTileId, mounted, freeMoves, huVars>>

\* the exit animation of the claim bar is over (line 806) and the bar leaves the page
BarExit ==
    /\ mounted
    /\ bar # <<>>
    /\ bar' = <<>>
    /\ op' = opOf("barExit", 0, Null, "", TRUE)
    /\ UNCHANGED <<game, pendingActions, selectedTileId, timers, aiTimer, mounted,
                   freeMoves, lateClicks, huVars>>

\* the AI turn timer fires (line 620); the 500 ms timers armed no later come first,
\* and so does the end of an exit animation: the effect re-arms its timer, for
\* 1500 ms, whenever the claim set changes, the bar's exit with it
AITurn ==
    /\ mounted
    /\ aiTimer = "turn"
    /\ timers = <<>>
    /\ bar = <<>>
    /\ LET p == game.currentTurn
           hand == game.players[p].hand
       IN  IF hasUndefined(hand) \/ hand = <<>>
           THEN \* canHu reads t.suit of undefined, or line 646 reads hand[0].id of
                \* an empty hand: the callback throws
                /\ aiTimer' = "none"
                /\ op' = opOf("aiTurn", p, Undefined, "", FALSE)
                /\ UNCHANGED <<game, pendingActions, timers, bar>>
           ELSE IF canHu(hand, game.players[p].melds)
           THEN /\ game' = selfDraw(p)
                /\ aiTimer' = "none"
                /\ op' = opOf("selfDraw", p, Null, "", TRUE)
                /\ UNCHANGED <<pendingActions, timers, bar>>
           ELSE /\ Settle(handleDiscard(p, hand[aiDiscardIndex(hand)]))
                /\ op' = opOf("discard", p, hand[aiDiscardIndex(hand)], "",
                              ~checkResponseActionsThrows(p))
    /\ UNCHANGED <<selectedTileId, mounted, freeMoves, lateClicks, huVars>>

\* the AI response timer fires (line 655), 1000 ms after the claim set last changed
AIResponse ==
    /\ mounted
    /\ aiTimer = "response"
    /\ timers = <<>>
    /\ bar = <<>>
    /\ LET bestAction == filterAI(pendingActions)[1]
           act == aiBestAction(bestAction.actions)
       IN  IF /\ act # "Pass"
              /\ game.lastDiscard # <<>>
              /\ updaterThrows(bestAction.player, act, game.lastDiscard[1].tile)
           THEN \* the render that runs the updater throws: the page is unmounted and
                \* the effect's cleanup (line 670) clears the AI timer
                /\ timers' = performActionThrown(bestAction.player, act).timers
                /\ mounted' = FALSE
                /\ aiTimer' = "none"
                /\ bar' = <<>>
                /\ op' = opOf("claim", bestAction.player, Null, act, FALSE)
                /\ UNCHANGED <<game, pendingActions>>
           ELSE IF act # "Pass"
           THEN /\ Settle(performAction(bestAction.player, act))
                /\ op' = opOf("claim", bestAction.player, Null, act, game.lastDiscard # <<>>)
                /\ UNCHANGED mounted
           ELSE /\ Settle(pass(bestAction.player))
                /\ op' = opOf("pass", bestAction.player, Null, "", TRUE)
                /\ UNCHANGED mounted
    /\ UNCHANGED <<selectedTileId, freeMoves, lateClicks, huVars>>

\* the oldest 500 ms timer is a nextTurn (lines 488, 666, 822) and fires
NextTurnTimer ==
    /\ mounted
    /\ timers # <<>>
    /\ timers[1].kind = "nextTurn"
    /\ Settle([nextTurn(timers[1].playerId) EXCEPT !.timers = Tail(timers)])
    /\ op' = opOf("nextTurn", timers[1].playerId, Null, "", TRUE)
    /\ UNCHANGED <<selectedTileId, mounted, freeMoves, lateClicks, huVars>>

\* the oldest 500 ms timer is a Kong replacement draw (line 598) and fires;
\* the render of the human's hand reads t.id of every tile and throws on undefined:
\* the page is unmounted and the effect's cleanup (line 648 or 670) clears the AI timer
KongDrawTimer ==
    /\ mounted
    /\ timers # <<>>
    /\ timers[1].kind = "kongDraw"
    /\ game' = kongDraw(timers[1].playerId)
    /\ timers' = Tail(timers)
    /\ mounted' = ~hasUndefined(game'.players[0].hand)
    /\ aiTimer' = IF mounted' THEN aiTimer ELSE "none"
    /\ bar' = IF mounted' THEN bar ELSE <<>>
    /\ op' = opOf("kongDraw", timers[1].playerId, Null, "", TRUE)
    /\ UNCHANGED <<pendingActions, selectedTileId, freeMoves, lateClicks, huVars>>

Next ==
    \/ InitGame
    \/ \E i \in 1 .. MaxClickPos : ClickTile(i)
    \/ SelfDrawButton
    \/ \E act \in {"Hu", "Pung", "Kong", "Chow"} : ClaimButton(act)
    \/ PassButton
    \/ BarExit
    \/ AITurn
    \/ AIResponse
    \/ NextTurnTimer
    \/ KongDrawTimer

Spec == Init /\ [][Next]_vars


----------------------------------------------------------------------------
(* canHu on its own: hands built tile by tile from a few kinds of the deck  *)

\* the longest hand canHu is given
MaxHuLen == 14

\* the kinds the hands are built from: Wan 6, 7, 8, 9 and Wind 1, 2, 3
HuKinds ==
    {<<"Wan", 6>>, <<"Wan", 7>>, <<"Wan", 8>>, <<"Wan", 9>>, <<"Wind", 1>>, <<"Wind", 2>>, <<"Wind", 3>>}

HuTiles == {t \in TileIds : keyOf(t) \in HuKinds}

\* the melds lists canHu is given: none, or a Pung of Dragon 1 claimed from seat 1
HuMeldLists ==
    {<<>>, <<[type |-> "Pung", tiles |-> <<124, 125, 126>>, fromPlayer |-> 1]>>}

\* the next tile of a hand kept in id order, the copies of a kind taken in order
HuAdd(t) ==
    /\ Len(huHand) < MaxHuLen
    /\ huHand # <<>> => huHand[Len(huHand)] < t
    /\ t % 4 # 0 => (huHand # <<>> /\ huHand[Len(huHand)] = t - 1)
    /\ huHand' = Append(huHand, t)
    /\ huResult' = canHu(huHand', huMelds)
    /\ UNCHANGED <<huMelds, gameVars>>

HuSetMelds(melds) ==
    /\ melds # huMelds
    /\ huMelds' = melds
    /\ huResult' = canHu(huHand, huMelds')
    /\ UNCHANGED <<huHand, gameVars>>

NextHu ==
    \/ \E t \in HuTiles : HuAdd(t)
    \/ \E melds \in HuMeldLists : HuSetMelds(melds)

SpecHu == Init /\ [][NextHu]_vars


----------------------------------------------------------------------------
(* C1 *)

\* the runs of a hand: the numeric kinds <<s, v>> with <<s, v + 1>> and <<s, v + 2>> also held
runStarts(counts) ==
    {k \in DOMAIN counts :
        /\ k[1] \in NumericSuits
        /\ <<k[1], k[2] + 1>> \in DOMAIN counts
        /\ <<k[1], k[2] + 2>> \in DOMAIN counts}

runsAt(runs, k) == IF k \in DOMAIN runs THEN runs[k] ELSE 0

\* the tiles of kind k that the chosen runs use
inRuns(runs, k) ==
    runsAt(runs, k) + runsAt(runs, <<k[1], k[2] - 1>>) + runsAt(runs, <<k[1], k[2] - 2>>)

\* one pair plus groups: some choice of how many runs start at each kind and of the
\* pair's kind leaves of every kind no tile or exactly a triplet
isWinningShape(hand) ==
    LET counts == countsOf(hand)
    IN  /\ Len(hand) % 3 = 2
        /\ \E runs \in [runStarts(counts) -> 0 .. 4] :
               \E pair \in DOMAIN counts :
                   \A k \in DOMAIN counts :
                       counts[k] - inRuns(runs, k) - (IF k = pair THEN 2 ELSE 0) \in {0, 3}

\* C1: canHu(hand, melds) is true exactly when the hand has 3m + 2 tiles that split
\* into one pair and m groups, each a triplet or a run of a numeric suit (Wind tiles
\* form no run), whatever the melds list.
C1_CanHuIsWinningShape ==
    /\ huResult = isWinningShape(huHand)
    /\ \A melds \in HuMeldLists : canHu(huHand, melds) = huResult

\* a winning 14-tile hand with a run and a triplet, judged with a meld on the table
C1_Witness ==
    /\ Len(huHand) = 14
    /\ huResult
    /\ huMelds # <<>>
    /\ \E i \in 1 .. 14 : keyOf(huHand[i]) = <<"Wind", 1>>
    /\ Cardinality({i \in 1 .. 14 : keyOf(huHand[i]) = <<"Wan", 7>>}) = 1


----------------------------------------------------------------------------
(* Properties of the game                                                   *)

tilesOf(seq) == {seq[i] : i \in 1 .. Len(seq)}

lastOf(seq) == seq[Len(seq)]

\* the (seat, kind) pair is in the claim set
offered(seat, kind) ==
    \E i \in 1 .. Len(pendingActions) :
        /\ pendingActions[i].player = seat
        /\ includes(pendingActions[i].actions, kind)

MeldKinds == {"Pung", "Kong", "Chow"}

\* C2: right after initGame the phase is Playing, the turn is seat 0's, seat 0 holds
\* 14 tiles and the other seats 13 each, nobody has melds or discards, there is no
\* last discard, the claim set is empty, the wall has 83 tiles, and hands and wall
\* together are the 136 tiles of the deck.
C2_InitGameDeal ==
    op.kind = "initGame" =>
        /\ game.phase = "Playing"
        /\ game.currentTurn = 0
        /\ Len(game.players[0].hand) = 14
        /\ \A p \in Seats \ {0} : Len(game.players[p].hand) = 13
        /\ \A p \in Seats : game.players[p].melds = <<>> /\ game.players[p].discards = <<>>
        /\ game.lastDiscard = <<>>
        /\ pendingActions = <<>>
        /\ Len(game.deck) = 83
        /\ game.wallCount = 83
        /\ UNION {tilesOf(game.players[p].hand) : p \in Seats} \cup tilesOf(game.deck) = TileIds

\* a restart in the middle of a session, a 500 ms timer of the old game still armed
C2_Witness ==
    /\ op.kind = "initGame"
    /\ freeMoves = 1
    /\ timers # <<>>

\* C3: a discard accepted in phase Playing of a tile of the seat's hand takes exactly
\* that tile out of the hand, appends it to the seat's discards, makes it the last
\* discard, enters ActionWindow, and leaves the wall, the seat's melds and the other
\* seats untouched.
C3_DiscardFrameEffect ==
    [][(/\ op'.kind = "discard"
        /\ game.phase = "Playing"
        /\ op'.tile \in tilesOf(game.players[op'.seat].hand))
       => LET p == op'.seat
              t == op'.tile
          IN  /\ Len(game'.players[p].hand) = Len(game.players[p].hand) - 1
              /\ tilesOf(game'.players[p].hand) = tilesOf(game.players[p].hand) \ {t}
              /\ game'.players[p].discards = Append(game.players[p].discards, t)
              /\ game'.lastDiscard = <<[tile |-> t, player |-> p]>>
              /\ game'.phase = "ActionWindow"
              /\ game'.players[p].melds = game.players[p].melds
              /\ \A q \in Seats \ {p} : game'.players[q] = game.players[q]
              /\ game'.deck = game.deck
              /\ game'.wallCount = game.wallCount]_vars

\* an AI seat has discarded a tile that other seats may claim
C3_Witness ==
    /\ op.kind = "discard"
    /\ isAI(op.seat)
    /\ game.phase = "ActionWindow"
    /\ game.lastDiscard = <<[tile |-> op.tile, player |-> op.seat]>>
    /\ lastOf(game.players[op.seat].discards) = op.tile
    /\ pendingActions # <<>>

\* C4: a click on a hand tile while the phase is not Playing or the turn is not the
\* human's changes neither the game nor the claim set, and a discard is only ever
\* carried out in phase Playing, for the seat whose turn it is, of a tile of its hand.
C4_DiscardRejected ==
    [][/\ (/\ op'.kind \in {"click", "select", "discard"}
           /\ op'.seat = 0
           /\ (game.phase # "Playing" \/ game.currentTurn # 0))
          => (game' = game /\ pendingActions' = pendingActions)
       /\ (op'.kind = "discard" /\ game' # game)
          => /\ game.phase = "Playing"
             /\ game.currentTurn = op'.seat
             /\ op'.tile \in tilesOf(game.players[op'.seat].hand)]_vars

\* a click was ignored in phase Playing during another seat's turn
C4_Witness ==
    /\ op.kind = "click"
    /\ ~op.ok
    /\ game.phase = "Playing"
    /\ game.currentTurn # 0

\* C5: no Pung, Kong or Chow is applied for a discard while another seat's Win claim
\* for that discard is in the claim set.
C5_NoMeldAheadOfWin ==
    [][(op'.kind = "claim" /\ op'.action \in MeldKinds /\ game' # game)
       => ~ \E i \in 1 .. Len(pendingActions) :
              /\ pendingActions[i].player # op'.seat
              /\ includes(pendingActions[i].actions, "Hu")]_vars

\* C6: a Win claim taken in an ActionWindow ends the game with the claimant as the
\* winner and winType Discard and empties the claim set, other seats' claims pending
\* or not, and changes no hand, meld, discard pile or the wall.
C6_WinClaimEndsGame ==
    [][(/\ op'.kind = "claim"
        /\ op'.action = "Hu"
        /\ game.phase = "ActionWindow"
        /\ game.lastDiscard # <<>>)
       => /\ game'.phase = "GameOver"
          /\ game'.winner = op'.seat
          /\ game'.winType = "Discard"
          /\ pendingActions' = <<>>
          /\ game'.players = game.players
          /\ game'.deck = game.deck
          /\ game'.wallCount = game.wallCount]_vars

\* a seat has won on a discard that an AI seat could claim as well (an AI seat's entry
\* stays in the claim set until a claim is applied)
C6_Witness ==
    /\ op.kind = "claim"
    /\ op.action = "Hu"
    /\ game.phase = "GameOver"
    /\ game.winner = op.seat
    /\ game.winType = "Discard"
    /\ game.lastDiscard # <<>>
    /\ \E q \in Seats \ {op.seat, game.lastDiscard[1].player} :
           /\ isAI(q)
           /\ possibleOf(q, game.lastDiscard[1].tile, game.lastDiscard[1].player) # <<>>

\* C7: an offered Pung, Kong or Chow takes 2, 3 or 2 tiles out of the claimant's hand,
\* appends one meld made of them and the claimed tile, tagged with the discarder, and
\* takes the claimed tile off the discarder's pile, so that afterwards the claimed tile
\* is in that meld and nowhere else.
C7_MeldClaimEffect ==
    [][(/\ op'.kind = "claim"
        /\ op'.action \in MeldKinds
        /\ game.lastDiscard # <<>>
        /\ offered(op'.seat, op'.action))
       => LET p == op'.seat
              d == game.lastDiscard[1].player
              t == game.lastDiscard[1].tile
              n == IF op'.action = "Kong" THEN 3 ELSE 2
              taken == tilesOf(game.players[p].hand) \ tilesOf(game'.players[p].hand)
              meld == lastOf(game'.players[p].melds)
          IN  /\ Len(game'.players[p].hand) = Len(game.players[p].hand) - n
              /\ tilesOf(game'.players[p].hand) \subseteq tilesOf(game.players[p].hand)
              /\ Cardinality(taken) = n
              /\ game'.players[p].melds = Append(game.players[p].melds, meld)
              /\ meld.type = op'.action
              /\ meld.fromPlayer = d
              /\ Len(meld.tiles) = n + 1
              /\ tilesOf(meld.tiles) = taken \cup {t}
              /\ lastOf(game.players[d].discards) = t
              /\ game'.players[d].discards
                     = SubSeq(game.players[d].discards, 1, Len(game.players[d].discards) - 1)
              /\ t \notin tilesOf(game'.deck)
              /\ \A q \in Seats :
                     /\ t \notin tilesOf(game'.players[q].hand)
                     /\ t \notin tilesOf(game'.players[q].discards)
                     /\ \A k \in 1 .. Len(game'.players[q].melds) :
                            t \in tilesOf(game'.players[q].melds[k].tiles)
                                => (q = p /\ k = Len(game'.players[p].melds))]_vars

\* C8: once an offered Pung, Kong or Chow is applied the claim set is empty, there is
\* no last discard and the claimant is on turn in phase Playing; and with no last
\* discard no claim changes the game, so no second claim is applied for that discard.
C8_OneClaimPerDiscard ==
    [][/\ (/\ op'.kind = "claim"
           /\ op'.action \in MeldKinds
           /\ game.lastDiscard # <<>>
           /\ offered(op'.seat, op'.action))
          => /\ pendingActions' = <<>>
             /\ game'.lastDiscard = <<>>
             /\ game'.phase = "Playing"
             /\ game'.currentTurn = op'.seat
       /\ (op'.kind = "claim" /\ game.lastDiscard = <<>>) => game' = game]_vars

\* C9: a claim changes the game only in phase ActionWindow, with a last discard, for
\* a (seat, kind) pair of the claim set; any other claim leaves the game as it is, so
\* a claim that was not offered forms no meld and ends no game.
C9_ClaimOnlyWhenOffered ==
    [][(/\ op'.kind = "claim"
        /\ ~ (/\ game.phase = "ActionWindow"
              /\ game.lastDiscard # <<>>
              /\ offered(op'.seat, op'.action)))
       => game' = game]_vars

\* C10: right after a discard by seat d that nobody can claim, the next change of the
\* game (a restart aside, the wall not empty) is one tile drawn from the end of the
\* wall into the hand of seat (d + 1) % 4, who is then on turn in phase Playing with
\* no last discard; no other hand changes.
C10_EmptyClaimSetDraws ==
    [][(/\ op.kind = "discard"
        /\ game.phase = "ActionWindow"
        /\ game.lastDiscard # <<>>
        /\ pendingActions = <<>>
        /\ game.deck # <<>>
        /\ game' # game
        /\ op'.kind # "initGame")
       => LET next == (game.lastDiscard[1].player + 1) % 4
          IN  /\ game'.deck = SubSeq(game.deck, 1, Len(game.deck) - 1)
              /\ game'.wallCount = game.wallCount - 1
              /\ Len(game'.players[next].hand) = Len(game.players[next].hand) + 1
              /\ tilesOf(game'.players[next].hand)
                     = tilesOf(game.players[next].hand) \cup {lastOf(game.deck)}
              /\ game'.currentTurn = next
              /\ game'.lastDiscard = <<>>
              /\ game'.phase = "Playing"
              /\ \A q \in Seats \ {next} : game'.players[q].hand = game.players[q].hand]_vars

\* the draw of nextTurn for a seat: one tile from the end of the wall into that seat's
\* hand, the seat on turn in phase Playing, no last discard, no other hand changed
drawsFor(next) ==
    /\ game'.deck = SubSeq(game.deck, 1, Len(game.deck) - 1)
    /\ game'.wallCount = game.wallCount - 1
    /\ Len(game'.players[next].hand) = Len(game.players[next].hand) + 1
    /\ tilesOf(game'.players[next].hand)
           = tilesOf(game.players[next].hand) \cup {lastOf(game.deck)}
    /\ game'.currentTurn = next
    /\ game'.lastDiscard = <<>>
    /\ game'.phase = "Playing"
    /\ \A q \in Seats \ {next} : game'.players[q].hand = game.players[q].hand

\* C11: a pass takes the passing seat's entry, and nothing else, out of the claim set
\* and leaves the game as it is; a pass that empties the claim set arms one draw for
\* the seat after the discarder, no other draw being armed, and the next change of the
\* game after it (a restart aside, the wall not empty) is that draw into Playing.
C11_PassFrameEffect ==
    [][/\ op'.kind = "pass"
          => /\ game' = game
             /\ offered(op'.seat, "Hu") \/ \E k \in MeldKinds : offered(op'.seat, k)
             /\ \E i \in 1 .. Len(pendingActions) :
                    /\ pendingActions[i].player = op'.seat
                    /\ pendingActions' = SubSeq(pendingActions, 1, i - 1)
                                            \o SubSeq(pendingActions, i + 1, Len(pendingActions))
             /\ IF pendingActions' = <<>>
                THEN timers' = <<timerOf("nextTurn", (game.lastDiscard[1].player + 1) % 4)>>
                ELSE timers' = timers
       /\ (/\ op.kind = "pass"
           /\ pendingActions = <<>>
           /\ game.deck # <<>>
           /\ game' # game
           /\ op'.kind # "initGame")
          => /\ op'.kind = "nextTurn"
             /\ timers' = <<>>
             /\ drawsFor((game.lastDiscard[1].player + 1) % 4)]_vars

\* C12: a draw attempted on an empty wall, by nextTurn or by the replacement draw of
\* a Kong, ends the game with no winner and gives no hand a tile.
C12_EmptyWallEndsGame ==
    [][(op'.kind \in {"nextTurn", "kongDraw"} /\ game.deck = <<>>)
       => /\ game'.phase = "GameOver"
          /\ game'.winner = Null
          /\ \A p \in Seats : game'.players[p].hand = game.players[p].hand]_vars

\* the game is over by a self-draw of seat s
selfDrawnBy(g, s) == g.phase = "GameOver" /\ g.winType = "SelfDraw" /\ g.winner = s

\* C13: the game becomes over by a self-draw of seat s only in a step taken in phase
\* Playing on s's turn with canHu true of the hand and melds s holds then, and every
\* self-draw declaration is such a step.
C13_SelfDrawOnlyOnWinningTurn ==
    [][\A s \in Seats :
           ((selfDrawnBy(game', s) /\ ~selfDrawnBy(game, s)) \/ (op'.kind = "selfDraw" /\ op'.seat = s))
           => /\ op'.kind = "selfDraw"
              /\ op'.seat = s
              /\ selfDrawnBy(game', s)
              /\ game.phase = "Playing"
              /\ game.currentTurn = s
              /\ canHu(game.players[s].hand, game.players[s].melds)]_vars

\* an AI seat holding a meld has declared a self-draw win
C13_Witness ==
    /\ op.kind = "selfDraw"
    /\ isAI(op.seat)
    /\ selfDrawnBy(game, op.seat)
    /\ game.currentTurn = op.seat
    /\ game.players[op.seat].melds # <<>>
    /\ canHu(game.players[op.seat].hand, game.players[op.seat].melds)

\* the state a nextTurn timer for seat q was armed for: an unclaimed discard of the
\* seat before q is still the last discard
awaitsDrawFor(q) ==
    /\ game.phase = "ActionWindow"
    /\ game.lastDiscard # <<>>
    /\ (game.lastDiscard[1].player + 1) % 4 = q
    /\ pendingActions = <<>>

\* C14: a 500 ms timer that fires after the state it was armed for is gone (a draw
\* for the next seat when no unclaimed discard of the seat before it is current, a
\* Kong replacement draw when the claimant is no longer on turn in phase Playing)
\* leaves the game unchanged.
C14_StaleTimerIgnored ==
    [][/\ (op'.kind = "nextTurn" /\ ~awaitsDrawFor(op'.seat)) => game' = game
       /\ (op'.kind = "kongDraw" /\ ~(game.phase = "Playing" /\ game.currentTurn = op'.seat))
          => game' = game]_vars

\* what GameOver is to keep: everything of the game but its log
settled(g) == [g EXCEPT !.logs = <<>>]

\* C15: once the phase is GameOver nothing but a restart changes the phase, the
\* winner, the winType, a hand, a meld, a discard pile or the wall.
C15_GameOverTerminal ==
    [][(game.phase = "GameOver" /\ op'.kind # "initGame") => settled(game') = settled(game)]_vars

\* C16: short of a restart the phase changes only from Playing to ActionWindow by a
\* discard, from ActionWindow to Playing by a claim or a draw, from ActionWindow to
\* GameOver by a Win claim or the empty wall, and from Playing to GameOver by a
\* self-draw; the phase is never Dealing.
C16_PhaseEdges ==
    [][/\ game'.phase \in {"Playing", "ActionWindow", "GameOver"}
       /\ (op'.kind # "initGame" /\ game'.phase # game.phase)
          => \/ /\ game.phase = "Playing"
                /\ game'.phase = "ActionWindow"
                /\ op'.kind = "discard"
             \/ /\ game.phase = "ActionWindow"
                /\ game'.phase = "Playing"
                /\ \/ op'.kind = "claim" /\ op'.action \in MeldKinds
                   \/ op'.kind = "nextTurn" /\ game.deck # <<>>
             \/ /\ game.phase = "ActionWindow"
                /\ game'.phase = "GameOver"
                /\ \/ op'.kind = "claim" /\ op'.action = "Hu"
                   \/ op'.kind = "nextTurn" /\ game.deck = <<>>
             \/ /\ game.phase = "Playing"
                /\ game'.phase = "GameOver"
                /\ op'.kind = "selfDraw"]_vars

\* the tiles a seat accounts for: its hand plus three for each meld
sizeOf(p) == Len(game.players[p].hand) + 3 * Len(game.players[p].melds)

\* C17: every seat's hand plus three per meld is 13 or 14; in phase Playing the seat
\* on turn is at 14 and the others at 13; in phase ActionWindow all four are at 13.
C17_HandSizes ==
    /\ \A p \in Seats : sizeOf(p) \in {13, 14}
    /\ game.phase = "Playing"
       => \A p \in Seats : sizeOf(p) = IF p = game.currentTurn THEN 14 ELSE 13
    /\ game.phase = "ActionWindow" => \A p \in Seats : sizeOf(p) = 13

\* the state right after a discard: the tile discarded and its discarder are in op
justDiscarded ==
    /\ op.kind = "discard"
    /\ game.phase = "ActionWindow"
    /\ game.lastDiscard = <<[tile |-> op.tile, player |-> op.seat]>>

\* how many tiles of the kind of t seat q holds (an undefined entry is no tile)
heldOf(q, t) ==
    LET hand == definedOf(game.players[q].hand)
    IN  Cardinality({i \in 1 .. Len(hand) : keyOf(hand[i]) = keyOf(t)})

\* seat q holds a tile of the suit of t with value v
holdsValue(q, t, v) ==
    LET hand == definedOf(game.players[q].hand)
    IN  \E i \in 1 .. Len(hand) : keyOf(hand[i]) = <<suitOf(t), v>>

\* seat q can complete a run with the tile t discarded by seat d
chowable(q, t, d) ==
    /\ q = (d + 1) % 4
    /\ suitOf(t) \in NumericSuits
    /\ \/ holdsValue(q, t, valueOf(t) - 2) /\ holdsValue(q, t, valueOf(t) - 1)
       \/ holdsValue(q, t, valueOf(t) - 1) /\ holdsValue(q, t, valueOf(t) + 1)
       \/ holdsValue(q, t, valueOf(t) + 1) /\ holdsValue(q, t, valueOf(t) + 2)

\* C18: after a discard every seat but the discarder is offered Pung exactly when its
\* hand holds at least two tiles of the discarded kind, and Kong exactly when it holds
\* three.
C18_PungKongOffered ==
    justDiscarded
    => \A q \in Seats \ {op.seat} :
           /\ offered(q, "Pung") <=> heldOf(q, op.tile) >= 2
           /\ offered(q, "Kong") <=> heldOf(q, op.tile) = 3

\* C19: after a discard Chow is offered to a seat exactly when the seat is the one
\* after the discarder, the tile is of a numeric suit, and the seat's hand holds the
\* two values below it, the values on either side of it, or the two values above it.
C19_ChowOffered ==
    justDiscarded
    => \A q \in Seats \ {op.seat} : offered(q, "Chow") <=> chowable(q, op.tile, op.seat)

\* C20: after a discard a seat is offered Win exactly when it is not the discarder and
\* canHu accepts its hand with the discarded tile added; the discarder has no entry in
\* the claim set, and a seat with an entry has some action open to it.
C20_WinOffered ==
    justDiscarded
    => /\ \A q \in Seats :
              LET wins == /\ ~hasUndefined(game.players[q].hand)
                          /\ canHu(Append(game.players[q].hand, op.tile), game.players[q].melds)
              IN  /\ offered(q, "Hu") <=> (q # op.seat /\ wins)
                  /\ (\E i \in 1 .. Len(pendingActions) : pendingActions[i].player = q)
                     => /\ q # op.seat
                        /\ wins \/ heldOf(q, op.tile) >= 2 \/ chowable(q, op.tile, op.seat)
       /\ \A i \in 1 .. Len(pendingActions) : pendingActions[i].actions # <<>>

\* the 34 kinds of tile
TileKinds == (NumericSuits \X (1 .. 9)) \cup ({"Wind"} \X (1 .. 4)) \cup ({"Dragon"} \X (1 .. 3))

\* the tiles in play: wall, hands, melds and discard piles, one entry for each place
RECURSIVE flatten(_)
flatten(seqs) == IF seqs = <<>> THEN <<>> ELSE Head(seqs) \o flatten(Tail(seqs))

placesOf(g) ==
    g.deck \o flatten([p \in 1 .. 4 |->
                          g.players[p - 1].hand
                          \o flatten([k \in 1 .. Len(g.players[p - 1].melds) |->
                                         g.players[p - 1].melds[k].tiles])
                          \o g.players[p - 1].discards])

\* C21: the deck createDeck returns to initGame has 136 tiles with pairwise distinct
\* ids, four of each of the 34 kinds: values 1-9 of Wan, Tiao and Tong, 1-4 of Wind,
\* 1-3 of Dragon.
C21_CreateDeck ==
    op.kind = "initGame"
    =>
    /\ Len(createDeck) = 136
    /\ Cardinality({createDeck[n].id : n \in 1 .. Len(createDeck)}) = Len(createDeck)
    /\ Cardinality(TileKinds) = 34
    /\ \A k \in TileKinds :
           Cardinality({n \in 1 .. Len(createDeck) : <<createDeck[n].suit, createDeck[n].value>> = k}) = 4

\* a session has just been dealt from the deck createDeck returned
C21_Witness ==
    /\ op.kind = "initGame"
    /\ Len(placesOf(game)) = Len(createDeck)
    /\ tilesOf(placesOf(game)) = {createDeck[n].id : n \in 1 .. Len(createDeck)}

\* a Kong replacement draw is armed and has not fired
kongDrawPending == \E i \in 1 .. Len(timers) : timers[i].kind = "kongDraw"

\* C22: between a Kong claim and its replacement draw nothing else changes the game
\* of the session, and the draw gives the claimant exactly one tile of the wall.
C22_KongDrawBeforeAnythingElse ==
    [][/\ (kongDrawPending /\ game' # game /\ op'.kind # "initGame") => op'.kind = "kongDraw"
       /\ op'.kind = "kongDraw"
          => /\ game.deck # <<>>
             /\ game'.deck = SubSeq(game.deck, 1, Len(game.deck) - 1)
             /\ Len(game'.players[op'.seat].hand) = Len(game.players[op'.seat].hand) + 1
             /\ tilesOf(game'.players[op'.seat].hand)
                    = tilesOf(game.players[op'.seat].hand) \cup {lastOf(game.deck)}]_vars

\* the positions of a hand holding a Wind or Dragon tile that has no second copy
singleHonours(hand) ==
    {i \in 1 .. Len(hand) :
        /\ suitOf(hand[i]) \in {"Wind", "Dragon"}
        /\ \A k \in 1 .. Len(hand) : keyOf(hand[k]) = keyOf(hand[i]) => k = i}

\* the positions of a hand holding a numeric tile with no other tile of its suit
\* within value distance 1
isolatedNumerics(hand) ==
    {i \in 1 .. Len(hand) :
        /\ suitOf(hand[i]) \in NumericSuits
        /\ \A k \in 1 .. Len(hand) :
               (k # i /\ suitOf(hand[k]) = suitOf(hand[i]))
               => valueOf(hand[k]) - valueOf(hand[i]) \notin -1 .. 1}

\* C23: the tile an AI seat discards on its turn is a singleton Wind or Dragon if the
\* hand has one, else an isolated numeric tile if the hand has one, else the first
\* tile of the hand.
C23_AIDiscardPriority ==
    [][(op'.kind = "discard" /\ isAI(op'.seat))
       => LET hand == game.players[op'.seat].hand
          IN  \E i \in 1 .. Len(hand) :
                  /\ hand[i] = op'.tile
                  /\ IF singleHonours(hand) # {} THEN i \in singleHonours(hand)
                     ELSE IF isolatedNumerics(hand) # {} THEN i \in isolatedNumerics(hand)
                     ELSE i = 1]_vars

\* the values v - 2 .. v + 2 of the suit of t that a hand holds
heldAround(hand, t) ==
    {w \in valueOf(t) - 2 .. valueOf(t) + 2 :
        \E i \in 1 .. Len(definedOf(hand)) : keyOf(definedOf(hand)[i]) = <<suitOf(t), w>>}

\* the two values a Chow of t takes from a hand holding the values held
lowestPair(v, held) ==
    IF {v - 2, v - 1} \subseteq held THEN {v - 2, v - 1}
    ELSE IF {v - 1, v + 1} \subseteq held THEN {v - 1, v + 1}
    ELSE {v + 1, v + 2}

\* C24: a Chow claim that is applied (the claimed discard is the one the handler of
\* the claim has read) takes from the claimant's hand the pair of the lowest completing
\* sequence, (v-2, v-1) before (v-1, v+1) before (v+1, v+2), and the meld it forms
\* has exactly three tiles, of one numeric suit, with consecutive values.
C24_ChowTakesLowestSequence ==
    [][(op'.kind = "claim" /\ op'.action = "Chow" /\ op'.ok)
       => LET p == op'.seat
              t == IF isAI(p) THEN game.lastDiscard[1].tile
                   ELSE barShown[1].lastDiscard[1].tile
              hand == game.players[p].hand
              meld == lastOf(game'.players[p].melds)
              taken == tilesOf(hand) \ tilesOf(game'.players[p].hand)
              low == CHOOSE m \in {valueOf(x) : x \in tilesOf(meld.tiles)} :
                         \A x \in tilesOf(meld.tiles) : m <= valueOf(x)
          IN  /\ Len(game'.players[p].melds) = Len(game.players[p].melds) + 1
              /\ meld.type = "Chow"
              /\ Len(meld.tiles) = 3
              /\ tilesOf(meld.tiles) = taken \cup {t}
              /\ Cardinality(taken) = 2
              /\ {valueOf(x) : x \in taken} = lowestPair(valueOf(t), heldAround(hand, t))
              /\ suitOf(t) \in NumericSuits
              /\ \A x \in taken : suitOf(x) = suitOf(t)
              /\ {valueOf(x) : x \in tilesOf(meld.tiles)} = {low, low + 1, low + 2}]_vars

\* C25: the event log never holds more than 50 entries.
C25_LogCapped == Len(game.logs) <= 50

\* the strength of a claim kind: Win > Kong > Pung > Chow
strengthOf(kind) ==
    IF kind = "Hu" THEN 4 ELSE IF kind = "Kong" THEN 3 ELSE IF kind = "Pung" THEN 2 ELSE 1

\* C26: an AI seat answering an action window performs a kind of its entry of the
\* claim set that no other kind of the entry is stronger than, in the order
\* Win > Kong > Pung > Chow, and passes only when its entry holds none of the four.
C26_AITakesStrongest ==
    [][(op'.kind \in {"claim", "pass"} /\ isAI(op'.seat))
       => \E i \in 1 .. Len(pendingActions) :
              /\ pendingActions[i].player = op'.seat
              /\ IF op'.kind = "claim"
                 THEN /\ includes(pendingActions[i].actions, op'.action)
                      /\ \A k \in 1 .. Len(pendingActions[i].actions) :
                             strengthOf(pendingActions[i].actions[k]) <= strengthOf(op'.action)
                 ELSE \A k \in 1 .. Len(pendingActions[i].actions) :
                          pendingActions[i].actions[k] \notin {"Hu"} \cup MeldKinds]_vars

\* an AI seat that could also Chow the discard has claimed the Win
C26_Witness ==
    /\ op.kind = "claim"
    /\ op.action = "Hu"
    /\ isAI(op.seat)
    /\ game.phase = "GameOver"
    /\ game.winner = op.seat
    /\ game.lastDiscard # <<>>
    /\ chowable(op.seat, game.lastDiscard[1].tile, game.lastDiscard[1].player)

\* C27: every one of the 136 tile ids is in exactly one place among the wall, the
\* hands, the melds and the discard piles, and no hand holds an undefined tile.
C27_TileConservation ==
    /\ Len(placesOf(game)) = 136
    /\ tilesOf(placesOf(game)) = TileIds
    /\ \A p \in Seats : ~hasUndefined(game.players[p].hand)

\* the human has something to click that the handlers accept: a tile of the hand on
\* the human's turn (line 850), or a button of the claim bar (line 802)
humanMayAct ==
    \/ game.phase = "Playing" /\ game.currentTurn = 0 /\ game.players[0].hand # <<>>
    \/ entryOf(pendingActions, 0) # <<>>

\* something is left that moves the game on: the page is up and a timer is armed or
\* the human may act
mayMoveOn == mounted /\ (timers # <<>> \/ aiTimer # "none" \/ humanMayAct)

\* C28: no state is stuck in Playing or ActionWindow: in each a timer is armed or
\* the human may act, so that with every timer firing and the human playing on
\* the game goes on until it is over.
C28_NeverStuck == game.phase \in {"Playing", "ActionWindow"} => mayMoveOn

====
